---- MODULE Spec2Model ----
(***************************************************************************)
(* ZeroDB: a JSON document store addressed by dotted paths, kept in memory *)
(* as JavaScript objects and persisted to one file, optionally encrypted.  *)
(*                                                                         *)
(* JavaScript objects are modelled as cells of a heap, so that two         *)
(* variables holding the same object (this.database = this.initialState)   *)
(* are distinguishable from two variables holding equal copies.            *)
(* A dotted path "a.b" is modelled by the sequence of its segments         *)
(* <<"a", "b">>, which is what lodash's castPath turns it into; segments   *)
(* are plain (non-index, non-inherited) property names.                    *)
(***************************************************************************)
EXTENDS Integers, Sequences, FiniteSets, TLC

VARIABLES
    heap,          \* the JavaScript heap: a sequence of cells, a cell's address is its index
    database,      \* this.database
    initialState,  \* this.initialState
    ret,           \* the value the last get/getState returned, still held by the caller
    arg,           \* the last object the caller passed in, still held by the caller
    snap,          \* the structural value of the argument of the last init, as passed
    last,          \* the last call: its name, inputs, result, error, and the Document before it
    steps,         \* the number of calls made
    file,          \* the backing file: absent, or its text
    options,       \* the constructor's options: encryption, secret, iterations
    salt,          \* this.salt
    key,           \* this.key
    calls,         \* the crypto functions the last load called, in order
    alive,         \* whether a Store has been constructed
    writes,        \* the writes save() has handed to fs.writeFile and that have not completed
    saved,         \* of the save() calls whose write has completed, the one called last: its Document, configuration and data
    destroyed      \* destroy() has removed the backing file and save() has not been called since

memvars == <<heap, database, initialState, ret, arg, snap>>
filevars == <<file, options, salt, key, calls, alive, writes, saved, destroyed>>
vars == <<heap, database, initialState, ret, arg, snap, last, steps,
          file, options, salt, key, calls, alive, writes, saved, destroyed>>

(***************************************************************************)
(* Bounds of the model.                                                    *)
(***************************************************************************)
MaxSteps == 4
CopySteps == 3
PathSteps == 1
FileSteps == 6
MaxNum == 3

(***************************************************************************)
(* JavaScript values.  A value is a primitive or a reference to a heap     *)
(* cell; every kind has its own record shape so that any two compare.      *)
(***************************************************************************)
Undefined == [t |-> "undef"]
Null == [t |-> "null"]
Bool(b) == [t |-> "bool", b |-> b]
Num(n) == [t |-> "num", n |-> n]
Str(s) == [t |-> "str", s |-> s]
Ref(a) == [t |-> "ref", a |-> a]
\* A regular expression, by the set of strings its test accepts.
Regex(m) == [t |-> "regex", m |-> m]

Keys == {"a", "b"}
KeyOrder == <<"a", "b", "_encryption", "state", "salt", "iterations", "content", "signature">>
NoProps == [x \in {} |-> Null]

\* A heap cell: a plain object (k = "map", own properties f) or an array
\* (k = "arr", elements e, and the named own properties f an array can carry).
Obj(k, e, f) == [k |-> k, e |-> e, f |-> f]

\* A structural value (what JSON text denotes, and what two values are compared by).
TObj(k, e, f) == [t |-> "obj", k |-> k, e |-> e, f |-> f]
EmptyMap == TObj("map", <<>>, NoProps)
EmptyArr == TObj("arr", <<>>, NoProps)
MapOf(f) == TObj("map", <<>>, f)
ArrOf(e) == TObj("arr", e, NoProps)

IsRef(v) == v.t = "ref"
IsArray(h, v) == IsRef(v) /\ h[v.a].k = "arr"
\* typeof v === 'object'
TypeofObject(v) == v.t \in {"ref", "null", "regex"}
\* !!v
Truthy(v) ==
    CASE v.t = "undef" -> FALSE
      [] v.t = "null" -> FALSE
      [] v.t = "bool" -> v.b
      [] v.t = "num" -> v.n # 0
      [] v.t = "str" -> v.s # ""
      [] OTHER -> TRUE

KeysOf(f) == SelectSeq(KeyOrder, LAMBDA k : k \in DOMAIN f)
Put(f, name, v) == [x \in DOMAIN f \cup {name} |-> IF x = name THEN v ELSE f[x]]
Drop(f, name) == [x \in DOMAIN f \ {name} |-> f[x]]

\* object[name] for a plain property name: own properties of objects and
\* arrays; a primitive has no such property.
Prop(h, v, name) ==
    IF IsRef(v) /\ name \in DOMAIN h[v.a].f THEN h[v.a].f[name] ELSE Undefined

\* hasOwnProperty.call(object, name)
HasOwn(h, v, name) == IsRef(v) /\ name \in DOMAIN h[v.a].f

(***************************************************************************)
(* The structural value of a JavaScript value: the tree below it.          *)
(***************************************************************************)
RECURSIVE Tree(_, _)
Tree(h, v) ==
    IF IsRef(v)
    THEN LET o == h[v.a]
         IN  TObj(o.k, [i \in 1..Len(o.e) |-> Tree(h, o.e[i])],
                  [x \in DOMAIN o.f |-> Tree(h, o.f[x])])
    ELSE v

\* The value a structural value holds at a path, Undefined when there is none.
RECURSIVE TreeAt(_, _)
TreeAt(tr, path) ==
    IF Len(path) = 0 THEN tr
    ELSE IF tr.t = "obj" /\ path[1] \in DOMAIN tr.f THEN TreeAt(tr.f[path[1]], Tail(path))
    ELSE Undefined
Present(tr, path) == TreeAt(tr, path) # Undefined

\* The cells reachable from a value.
RECURSIVE Reach(_, _)
Reach(h, v) ==
    IF IsRef(v)
    THEN LET o == h[v.a]
         IN  {v.a} \cup UNION {Reach(h, o.e[i]) : i \in 1..Len(o.e)}
                   \cup UNION {Reach(h, o.f[x]) : x \in DOMAIN o.f}
    ELSE {}

(***************************************************************************)
(* Allocation of a structural value as fresh cells (an object literal,     *)
(* the result of JSON.parse, the copy cloneDeep returns).                  *)
(***************************************************************************)
RECURSIVE Build(_, _), BuildSeq(_, _), BuildProps(_, _, _)
Build(h, tr) ==
    IF tr.t # "obj" THEN [h |-> h, v |-> tr]
    ELSE LET a == Len(h) + 1
             h0 == Append(h, Obj(tr.k, <<>>, NoProps))
             es == BuildSeq(h0, tr.e)
             ps == BuildProps(es.h, tr.f, KeysOf(tr.f))
         IN  [h |-> [ps.h EXCEPT ![a] = Obj(tr.k, es.vs, ps.f)], v |-> Ref(a)]
BuildSeq(h, trs) ==
    IF Len(trs) = 0 THEN [h |-> h, vs |-> <<>>]
    ELSE LET first == Build(h, trs[1])
             rest == BuildSeq(first.h, Tail(trs))
         IN  [h |-> rest.h, vs |-> <<first.v>> \o rest.vs]
BuildProps(h, f, ks) ==
    IF Len(ks) = 0 THEN [h |-> h, f |-> NoProps]
    ELSE LET first == Build(h, f[ks[1]])
             rest == BuildProps(first.h, f, Tail(ks))
         IN  [h |-> rest.h, f |-> Put(rest.f, ks[1], first.v)]

(***************************************************************************)
(* clone-deep: a plain object is copied key by key, an array element by    *)
(* element into a new array of the same length (its named properties are   *)
(* not copied), a primitive is returned as it is.                          *)
(***************************************************************************)
RECURSIVE CloneShape(_, _)
CloneShape(h, v) ==
    IF IsRef(v)
    THEN LET o == h[v.a]
         IN  IF o.k = "arr"
             THEN ArrOf([i \in 1..Len(o.e) |-> CloneShape(h, o.e[i])])
             ELSE MapOf([x \in DOMAIN o.f |-> CloneShape(h, o.f[x])])
    ELSE v

cloneDeep(h, v) == Build(h, CloneShape(h, v))

(***************************************************************************)
(* lodash: _.get, _.has, _.set, _.unset over a path of plain segments.     *)
(***************************************************************************)
Nullish(v) == v.t \in {"null", "undef"}

\* baseGet: descend while the current value is not null or undefined.
RECURSIVE baseGet(_, _, _)
baseGet(h, object, path) ==
    IF Len(path) = 0 THEN object
    ELSE IF Nullish(object) THEN Undefined
    ELSE baseGet(h, Prop(h, object, path[1]), Tail(path))

lodashGet(h, object, path, defaultValue) ==
    LET result == IF Nullish(object) THEN Undefined ELSE baseGet(h, object, path)
    IN  IF result = Undefined THEN defaultValue ELSE result

\* hasPath with baseHas: every segment must be an own property.
RECURSIVE hasPath(_, _, _)
hasPath(h, object, path) ==
    IF Len(path) = 0 THEN TRUE
    ELSE /\ ~Nullish(object)
         /\ HasOwn(h, object, path[1])
         /\ hasPath(h, Prop(h, object, path[1]), Tail(path))

lodashHas(h, object, path) == ~Nullish(object) /\ hasPath(h, object, path)

\* baseSet: an intermediate value that is not an object is replaced by a new
\* plain object; the last segment is assigned the value.
RECURSIVE baseSet(_, _, _, _)
baseSet(h, a, path, value) ==
    LET k == path[1]
        objValue == Prop(h, Ref(a), k)
    IN  IF Len(path) = 1
        THEN [h EXCEPT ![a].f = Put(h[a].f, k, value)]
        ELSE IF IsRef(objValue)
        THEN baseSet(h, objValue.a, Tail(path), value)
        ELSE LET n == Len(h) + 1
                 h1 == Append([h EXCEPT ![a].f = Put(h[a].f, k, Ref(n))],
                              Obj("map", <<>>, NoProps))
             IN  baseSet(h1, n, Tail(path), value)

lodashSet(h, object, path, value) ==
    IF IsRef(object) THEN baseSet(h, object.a, path, value) ELSE h

\* baseUnset: delete the last segment from its parent, when there is one.
lodashUnset(h, object, path) ==
    LET parent == IF Len(path) < 2 THEN object
                  ELSE IF Nullish(object) THEN Undefined
                  ELSE baseGet(h, object, SubSeq(path, 1, Len(path) - 1))
        k == path[Len(path)]
    IN  IF IsRef(parent) /\ k \in DOMAIN h[parent.a].f
        THEN [h EXCEPT ![parent.a].f = Drop(h[parent.a].f, k)]
        ELSE h

(***************************************************************************)
(* The Store's methods, as functions of the Store's fields.  Each returns  *)
(* the fields after the call, the value returned and the error thrown      *)
(* ("" when the call returns normally).                                    *)
(***************************************************************************)
NoError == ""
StateError == "State should be an object"
PushError == "You can only push values to an array"
PathError == "Path doesn't exist"
IncreaseAmountError == "The amount to increase must be a number"
DecreaseAmountError == "The amount to decrease must be a number"
IncreaseTypeError == "You can only increase number values"
DecreaseTypeError == "You can only decrease number values"
UpdaterError == "Updater must be a function"
TypeError == "TypeError"

This == [t |-> "this"]
Returns(st, res) == [st |-> st, res |-> res, err |-> NoError]
Throws(st, err) == [st |-> st, res |-> Undefined, err |-> err]

\* validateState(state): the error it throws, if any
validateState(state) == IF TypeofObject(state) THEN NoError ELSE StateError

\* Object.keys(value).length === 0, for an object
NoKeys(h, v) == Len(h[v.a].e) = 0 /\ DOMAIN h[v.a].f = {}

init(st, state, force) ==
    IF validateState(state) # NoError THEN Throws(st, StateError)
    ELSE LET c == cloneDeep(st.heap, state)
             st1 == [st EXCEPT !.heap = c.h, !.initialState = c.v]
         IN  IF Nullish(st.database) THEN Throws(st1, TypeError)
             ELSE IF NoKeys(st1.heap, st.database) \/ force
             THEN Returns([st1 EXCEPT !.database = state], This)
             ELSE Returns(st1, This)

setAppending(st, path, value) ==
    LET destination == lodashGet(st.heap, st.database, path, Undefined)
    IN  IF IsArray(st.heap, destination) /\ ~IsRef(value)
        THEN Returns([st EXCEPT !.heap[destination.a].e = Append(@, value)], This)
        ELSE Returns([st EXCEPT !.heap = lodashSet(st.heap, st.database, path, value)], This)

set(st, path, value) ==
    Returns([st EXCEPT !.heap = lodashSet(st.heap, st.database, path, value)], This)

getWithoutCopy(st, path, defaultValue) ==
    Returns(st, lodashGet(st.heap, st.database, path, defaultValue))

get(st, path, defaultValue) ==
    LET data == lodashGet(st.heap, st.database, path, defaultValue)
        c == cloneDeep(st.heap, data)
    IN  Returns([st EXCEPT !.heap = c.h], c.v)

pushFront(st, path, value) ==
    LET destination == lodashGet(st.heap, st.database, path, Undefined)
    IN  IF ~Truthy(destination)
        THEN LET n == Len(st.heap) + 1
                 h1 == Append(st.heap, Obj("arr", <<value>>, NoProps))
             IN  Returns([st EXCEPT !.heap = lodashSet(h1, st.database, path, Ref(n))], This)
        ELSE IF ~IsArray(st.heap, destination) THEN Throws(st, PushError)
        ELSE Returns([st EXCEPT !.heap[destination.a].e = <<value>> \o @], This)

push(st, path, value) ==
    LET destination == lodashGet(st.heap, st.database, path, Undefined)
    IN  IF ~Truthy(destination)
        THEN LET n == Len(st.heap) + 1
                 h1 == Append(st.heap, Obj("arr", <<value>>, NoProps))
             IN  set([st EXCEPT !.heap = h1], path, Ref(n))
        ELSE IF ~IsArray(st.heap, destination) THEN Throws(st, PushError)
        ELSE Returns([st EXCEPT !.heap[destination.a].e = Append(@, value)], This)

hasTruthy(st, path) ==
    Returns(st, Bool(Truthy(lodashGet(st.heap, st.database, path, Undefined))))

has(st, path) == Returns(st, Bool(lodashHas(st.heap, st.database, path)))

reset(st) == Returns([st EXCEPT !.database = st.initialState], This)

delete(st, path) ==
    Returns([st EXCEPT !.heap = lodashUnset(st.heap, st.database, path)], This)

increment(st, path, amount) ==
    IF amount.t # "num" THEN Throws(st, IncreaseAmountError)
    ELSE LET g == get(st, path, Null)
             currentValue == g.res
         IN  IF ~Truthy(currentValue) THEN Throws(g.st, PathError)
             ELSE IF currentValue.t # "num" THEN Throws(g.st, IncreaseTypeError)
             ELSE set(g.st, path, Num(currentValue.n + amount.n))

decrement(st, path, amount) ==
    IF amount.t # "num" THEN Throws(st, DecreaseAmountError)
    ELSE LET g == get(st, path, Null)
             currentValue == g.res
         IN  IF ~Truthy(currentValue) THEN Throws(g.st, PathError)
             ELSE IF currentValue.t # "num" THEN Throws(g.st, DecreaseTypeError)
             ELSE set(g.st, path, Num(currentValue.n - amount.n))

\* The updater functions a caller passes: value => value, value => !value,
\* value => typeof value; "none" is a caller passing something that is no function.
Updaters == {"same", "not", "typeof", "none"}
Typeof(v) ==
    CASE v.t = "undef" -> "undefined"
      [] v.t = "bool" -> "boolean"
      [] v.t = "num" -> "number"
      [] v.t = "str" -> "string"
      [] OTHER -> "object"
ApplyUpdater(updater, v) ==
    CASE updater = "same" -> v
      [] updater = "not" -> Bool(~Truthy(v))
      [] OTHER -> Str(Typeof(v))

update(st, path, updater) ==
    IF updater = "none" THEN Throws(st, UpdaterError)
    ELSE LET g == get(st, path, Null)
             currentValue == g.res
         IN  IF ~Truthy(currentValue) THEN Throws(g.st, PathError)
             ELSE set(g.st, path, ApplyUpdater(updater, currentValue))

getState(st) ==
    LET c == cloneDeep(st.heap, st.database)
    IN  Returns([st EXCEPT !.heap = c.h], c.v)

setState(st, state) ==
    IF validateState(state) # NoError THEN Throws(st, StateError)
    ELSE Returns([st EXCEPT !.database = state], This)

(***************************************************************************)
(* lib/crypto.js.  A salt and the initialisation of a cipher are random:   *)
(* the caller of these operators draws them.  PBKDF2, AES and HMAC are     *)
(* modelled as injective constructors: a key is determined by (secret,     *)
(* salt, iterations), a cipher text by (plain text, key, random part), a   *)
(* signature by (cipher text, key).  A string a crypto function returns is *)
(* a JavaScript string value carrying what it was computed from.           *)
(***************************************************************************)
Salts == {"s1", "s2"}
Randoms == {"r1", "r2"}
Made(kind, content) == [t |-> "str", s |-> kind, c |-> content]
IsMade(v, kind) == v.t = "str" /\ v.s = kind /\ "c" \in DOMAIN v

generateSalt(random) == Str(random)

generateKey(secret, s, iterations) == Made("pbkdf2", <<secret, s, iterations>>)

HmacSHA256(message, k) == Made("hmac", <<message, k>>)

cryptoEncryptState(state, k, random) ==
    LET encryptedState == Made("aes", [plain |-> state, key |-> k, random |-> random])
    IN  [state |-> encryptedState, signature |-> HmacSHA256(encryptedState, k)]

\* CryptoJS.AES.decrypt(...).toString(): the hexadecimal encoding of the
\* recovered bytes (the encoder toString uses when none is given)
cryptoDecryptState(encryptedState, k) ==
    IF IsMade(encryptedState, "aes") /\ encryptedState.c.key = k
    THEN Made("hex", encryptedState.c.plain)
    ELSE Made("hex", "garbage")

cryptoIsStateValid(encryptedState, signature, k) ==
    HmacSHA256(encryptedState, k) = signature

\* module.exports of lib/crypto.js: what require('./lib/crypto') has
CryptoExports == {"generateSalt", "generateKey", "encryptState"}

(***************************************************************************)
(* JSON.  The text of a file is modelled by the structural value it        *)
(* denotes, or is malformed.  JSON.stringify writes an object's own        *)
(* properties and an array's elements (not an array's named properties);   *)
(* JSON.parse allocates the value as fresh cells.                          *)
(***************************************************************************)
Absent == [kind |-> "absent"]
Text(tr) == [kind |-> "json", tree |-> tr]
Malformed == [kind |-> "malformed"]

RECURSIVE JsonShape(_, _)
JsonShape(h, v) ==
    IF IsRef(v)
    THEN LET o == h[v.a]
         IN  IF o.k = "arr"
             THEN ArrOf([i \in 1..Len(o.e) |-> JsonShape(h, o.e[i])])
             ELSE MapOf([x \in DOMAIN o.f |-> JsonShape(h, o.f[x])])
    ELSE v
stringify(h, v) == Text(JsonShape(h, v))
\* JSON.parse of a string a crypto function returned: hexadecimal digits are
\* no JSON document
ParsesAsJson(v) == ~IsMade(v, "hex")

MalformedError == "Database source contains malformed JSON"
InvalidStateError == "The state is not valid"
AlteredError == "The state has been altered"

(***************************************************************************)
(* Construction: readDatabase, decryptDatabase, createDatabase,            *)
(* encryptState.  `self` is the Store under construction: its fields, the  *)
(* heap, the file, and the crypto calls made so far.                       *)
(***************************************************************************)
Called(self, fn, res) == [self EXCEPT !.calls = Append(@, [fn |-> fn, res |-> res])]
Failed(self, err) == [self EXCEPT !.err = err]

\* encryptState, were it to record the salt the constructor starts with
\* instead of the salt the key was derived from
encryptStateStaleSalt(self, random) ==
    LET encryptedState == cryptoEncryptState(stringify(self.heap, self.database), self.key, random)
    IN  MapOf([_encryption |-> MapOf([salt |-> Str(""),
                                      iterations |-> Num(self.iterations)]),
               state |-> MapOf([content |-> encryptedState.state,
                                signature |-> encryptedState.signature])])

\* the value of this.encryptState()
encryptState(self, random) ==
    LET state == stringify(self.heap, self.database)
        encryptedState == cryptoEncryptState(state, self.key, random)
    IN  MapOf([_encryption |-> MapOf([salt |-> self.salt,
                                      iterations |-> Num(self.iterations)]),
               state |-> MapOf([content |-> encryptedState.state,
                                signature |-> encryptedState.signature])])

createDatabase(self, s, random) ==
    IF self.encryption
    THEN LET s1 == Called(Called([self EXCEPT !.salt = generateSalt(s),
                                              !.key = generateKey(self.secret, generateSalt(s), self.iterations)],
                                 "generateSalt", Str("ok")), "generateKey", Str("ok"))
         IN  [Called(s1, "encryptState", Str("ok")) EXCEPT !.file = Text(encryptState(s1, random))]
    ELSE [self EXCEPT !.file = Text(EmptyMap)]

TruthyTree(tr) == tr.t = "obj" \/ Truthy(tr)
Field(tr, name) == TreeAt(tr, <<name>>)

\* decryptDatabase, were it to replace a file it cannot load by an empty
\* database before it throws
decryptOrRecreate(self, parsed, s) ==
    Failed([self EXCEPT !.file = Text(EmptyMap)], InvalidStateError)

decryptDatabase(self, parsed, s) ==
    LET meta == Field(parsed, "_encryption")
        fileSalt == Field(meta, "salt")
        iterations == Field(meta, "iterations")
        s0 == IF ~TruthyTree(fileSalt)
              THEN Called([self EXCEPT !.salt = generateSalt(s)], "generateSalt", Str("ok"))
              ELSE [self EXCEPT !.salt = fileSalt]
        s1 == [s0 EXCEPT !.iterations = IF iterations.t = "num" THEN iterations.n ELSE @]
        s2 == Called([s1 EXCEPT !.key = generateKey(s1.secret, s1.salt, s1.iterations)],
                     "generateKey", Str("ok"))
        state == Field(parsed, "state")
        stateContent == Field(state, "content")
        stateSignature == Field(state, "signature")
    IN  IF Nullish(state) THEN Failed(s2, TypeError)
        ELSE IF ~TruthyTree(stateContent) \/ ~TruthyTree(stateSignature)
        THEN Failed(s2, InvalidStateError)
        ELSE IF "isStateValid" \notin CryptoExports
        THEN Failed(Called(s2, "isStateValid", Str("TypeError")), TypeError)
        ELSE LET isStateValid == cryptoIsStateValid(stateContent, stateSignature, s2.key)
                 s3 == Called(s2, "isStateValid", Bool(isStateValid))
             IN  IF ~isStateValid THEN Failed(s3, AlteredError)
                 ELSE IF "decryptState" \notin CryptoExports
                 THEN Failed(Called(s3, "decryptState", Str("TypeError")), TypeError)
                 ELSE LET decryptedState == cryptoDecryptState(stateContent, s3.key)
                          s4 == Called(s3, "decryptState", Str("ok"))
                      IN  IF ~ParsesAsJson(decryptedState) THEN Failed(s4, MalformedError)
                          ELSE LET b == Build(s4.heap, decryptedState.c.tree)
                               IN  [s4 EXCEPT !.heap = b.h, !.database = b.v]

readDatabase(self, s, random) ==
    IF self.file # Absent /\ ~self.empty
    THEN IF self.file = Malformed THEN Failed(self, MalformedError)
         ELSE LET parsed == self.file.tree
                  b == Build(self.heap, parsed)
              IN  IF self.encryption
                  THEN IF Nullish(parsed) THEN Failed(self, TypeError)
                       ELSE IF ~TruthyTree(Field(parsed, "_encryption"))
                       THEN LET s1 == Called(Called(
                                         [self EXCEPT !.salt = generateSalt(s),
                                                      !.key = generateKey(self.secret, generateSalt(s), self.iterations),
                                                      !.heap = b.h, !.database = b.v],
                                         "generateSalt", Str("ok")), "generateKey", Str("ok"))
                            IN  [Called(s1, "encryptState", Str("ok"))
                                    EXCEPT !.file = Text(encryptState(s1, random))]
                       ELSE decryptDatabase(self, parsed, s)
                  ELSE [self EXCEPT !.heap = b.h, !.database = b.v]
    ELSE createDatabase(self, s, random)

SecretError == "The secret must be provided for encryption"

\* validateCrypto(): the error it throws, if any
validateCrypto(opts) ==
    IF opts.encryption /\ ~Truthy(opts.secret) THEN SecretError ELSE NoError

\* new ZeroDB(source, options): the fields the constructor sets,
\* validateCrypto(), then readDatabase()
constructor(fileNow, opts, s, random) ==
    LET self == [heap |-> <<Obj("map", <<>>, NoProps), Obj("map", <<>>, NoProps)>>,
                 database |-> Ref(1), initialState |-> Ref(2),
                 encryption |-> opts.encryption, secret |-> opts.secret,
                 iterations |-> opts.iterations, salt |-> Str(""), key |-> Undefined,
                 empty |-> opts.empty, file |-> fileNow, calls |-> <<>>, err |-> NoError]
    IN  IF validateCrypto(opts) # NoError THEN Failed(self, SecretError)
        ELSE readDatabase(self, s, random)

(***************************************************************************)
(* Calls.  A caller passes a literal (allocated as fresh cells before the  *)
(* call) and keeps the object it passed (arg) and the value get/getState   *)
(* returned (ret).                                                         *)
(***************************************************************************)
Store(h) == [heap |-> h, database |-> database, initialState |-> initialState]
NoPath == <<>>

Call(name, path, input, flag, out) ==
    /\ heap' = out.st.heap
    /\ database' = out.st.database
    /\ initialState' = out.st.initialState
    /\ last' = [op |-> name, path |-> path, input |-> input, flag |-> flag,
                res |-> Tree(out.st.heap, out.res), err |-> out.err,
                pre |-> Tree(heap, database)]
    /\ steps' = steps + 1

Kept(v) == IF IsRef(v) THEN v ELSE arg

DoInit(state, force) ==
    LET b == Build(heap, state)
        out == init(Store(b.h), b.v, force)
    IN  /\ alive
        /\ Call("init", NoPath, state, force, out)
        /\ arg' = Kept(b.v)
        /\ snap' = IF out.err = StateError THEN snap ELSE state
        /\ UNCHANGED <<ret, filevars>>

DoSet(path, value) ==
    LET b == Build(heap, value)
    IN  /\ alive
        /\ Call("set", path, value, FALSE, set(Store(b.h), path, b.v))
        /\ arg' = Kept(b.v)
        /\ UNCHANGED <<ret, snap, filevars>>

DoGet(path, defaultValue) ==
    LET out == get(Store(heap), path, defaultValue)
    IN  /\ alive
        /\ Call("get", path, defaultValue, FALSE, out)
        /\ ret' = out.res
        /\ UNCHANGED <<arg, snap, filevars>>

DoPush(path, value) ==
    LET b == Build(heap, value)
    IN  /\ alive
        /\ Call("push", path, value, FALSE, push(Store(b.h), path, b.v))
        /\ arg' = Kept(b.v)
        /\ UNCHANGED <<ret, snap, filevars>>

DoHas(path) ==
    /\ alive
    /\ Call("has", path, Undefined, FALSE, has(Store(heap), path))
    /\ UNCHANGED <<ret, arg, snap, filevars>>

DoReset ==
    /\ alive
    /\ Call("reset", NoPath, Undefined, FALSE, reset(Store(heap)))
    /\ UNCHANGED <<ret, arg, snap, filevars>>

DoDelete(path) ==
    /\ alive
    /\ Call("delete", path, Undefined, FALSE, delete(Store(heap), path))
    /\ UNCHANGED <<ret, arg, snap, filevars>>

InRange(out) ==
    \A a \in 1..Len(out.st.heap) : \A x \in DOMAIN out.st.heap[a].f :
        LET v == out.st.heap[a].f[x] IN v.t = "num" => (v.n <= MaxNum /\ v.n >= -MaxNum)

DoIncrement(path, amount) ==
    LET out == increment(Store(heap), path, amount)
    IN  /\ alive
        /\ InRange(out)
        /\ Call("increment", path, amount, FALSE, out)
        /\ UNCHANGED <<ret, arg, snap, filevars>>

DoDecrement(path, amount) ==
    LET out == decrement(Store(heap), path, amount)
    IN  /\ alive
        /\ InRange(out)
        /\ Call("decrement", path, amount, FALSE, out)
        /\ UNCHANGED <<ret, arg, snap, filevars>>

DoUpdate(path, updater) ==
    /\ alive
    /\ Call("update", path, Str(updater), FALSE, update(Store(heap), path, updater))
    /\ UNCHANGED <<ret, arg, snap, filevars>>

DoGetState ==
    LET out == getState(Store(heap))
    IN  /\ alive
        /\ Call("getState", NoPath, Undefined, FALSE, out)
        /\ ret' = out.res
        /\ UNCHANGED <<arg, snap, filevars>>

DoSetState(state) ==
    LET b == Build(heap, state)
    IN  /\ alive
        /\ Call("setState", NoPath, state, FALSE, setState(Store(b.h), b.v))
        /\ arg' = Kept(b.v)
        /\ UNCHANGED <<ret, snap, filevars>>

\* The caller assigns a property of an object it holds: one reachable from
\* the value a get/getState returned, or from the object it passed in.
Assign(held, a, name, value) ==
    /\ alive
    /\ a \in Reach(heap, held)
    /\ heap' = [heap EXCEPT ![a].f = Put(@, name, value)]
    /\ steps' = steps + 1
    /\ UNCHANGED <<database, initialState, ret, arg, snap, filevars>>

MutateReturned(a, name, value) ==
    /\ Assign(ret, a, name, value)
    /\ last' = [op |-> "mutateReturned", path |-> <<name>>, input |-> value, flag |-> FALSE,
                res |-> Undefined, err |-> NoError, pre |-> Tree(heap, database)]

MutateArgument(a, name, value) ==
    /\ Assign(arg, a, name, value)
    /\ last' = [op |-> "mutateArgument", path |-> <<name>>, input |-> value, flag |-> FALSE,
                res |-> Undefined, err |-> NoError, pre |-> Tree(heap, database)]

(***************************************************************************)
(* Construction, save and the file.                                        *)
(***************************************************************************)
Event(name, input) ==
    [op |-> name, path |-> NoPath, input |-> input, flag |-> FALSE,
     res |-> Undefined, err |-> NoError, pre |-> Undefined]

\* new ZeroDB(source, opts).  When the constructor throws there is no Store;
\* what it wrote to the file before throwing stays written.
Construct(opts, s, random) ==
    LET self == constructor(file, opts, s, random)
    IN  /\ ~alive
        /\ alive' = (self.err = NoError)
        /\ heap' = IF self.err = NoError THEN self.heap ELSE <<>>
        /\ database' = IF self.err = NoError THEN self.database ELSE Undefined
        /\ initialState' = IF self.err = NoError THEN self.initialState ELSE Undefined
        /\ options' = [opts EXCEPT !.iterations = self.iterations]
        /\ salt' = self.salt
        /\ key' = self.key
        /\ calls' = self.calls
        /\ file' = self.file
        /\ saved' = IF self.file = file THEN saved ELSE Undefined
        /\ last' = [Event("new", [file |-> file, opts |-> opts]) EXCEPT !.err = self.err]
        /\ steps' = steps + 1
        /\ destroyed' = FALSE
        /\ UNCHANGED <<ret, arg, snap, writes>>

\* save(): the data is computed when save is called, and handed to
\* fs.writeFile; the promise resolves when the write has completed.
save(self, random) ==
    IF self.encryption THEN Text(encryptState(self, random))
    ELSE stringify(self.heap, self.database)

Self ==
    [heap |-> heap, database |-> database, encryption |-> options.encryption,
     secret |-> options.secret, iterations |-> options.iterations, salt |-> salt, key |-> key]

DoSave(random) ==
    /\ alive
    /\ writes' = Append(writes, [data |-> save(Self, random),
                                 doc |-> Tree(heap, database), opts |-> options,
                                 at |-> steps, phase |-> "queued"])
    /\ last' = Event("save", Undefined)
    /\ steps' = steps + 1
    /\ destroyed' = FALSE
    /\ UNCHANGED <<memvars, file, options, salt, key, calls, alive, saved>>

\* The record of a write that has completed.
Completed(w) ==
    [doc |-> w.doc, opts |-> w.opts, tampered |-> FALSE, data |-> w.data, at |-> w.at]

\* fs.writeFile completes, no other write having started meanwhile: the file
\* holds the data of that write.
CompleteWrite ==
    /\ writes # <<>>
    /\ \A i \in 1..Len(writes) : writes[i].phase = "queued"
    /\ file' = Head(writes).data
    /\ saved' = Completed(Head(writes))
    /\ writes' = Tail(writes)
    /\ last' = Event("written", Undefined)
    /\ steps' = steps + 1
    /\ UNCHANGED <<memvars, options, salt, key, calls, alive, destroyed>>

\* Somebody changes the cipher text or the signature of a saved envelope
\* to a different value.
Forged == Str("forged")
Tamper(name) ==
    /\ ~alive
    /\ file # Absent /\ file # Malformed
    /\ saved # Undefined
    /\ TruthyTree(Field(file.tree, "_encryption"))
    /\ Field(Field(file.tree, "state"), name) # Forged
    /\ file' = Text([file.tree EXCEPT !.f["state"].f[name] = Forged])
    /\ saved' = [saved EXCEPT !.tampered = TRUE]
    /\ last' = Event("tamper", Str(name))
    /\ steps' = steps + 1
    /\ UNCHANGED <<memvars, options, salt, key, calls, alive, writes, destroyed>>

\* The program that holds the Store ends, its writes completed.
Exit ==
    /\ alive
    /\ writes = <<>>
    /\ alive' = FALSE
    /\ heap' = <<>>
    /\ database' = Undefined
    /\ initialState' = Undefined
    /\ ret' = Undefined
    /\ arg' = Undefined
    /\ snap' = Undefined
    /\ last' = Event("exit", Undefined)
    /\ steps' = steps + 1
    /\ UNCHANGED <<file, options, salt, key, calls, writes, saved, destroyed>>

(***************************************************************************)
(* The Store in memory: a Store constructed on a missing plaintext file    *)
(* (this.database = {}, this.initialState = {}), then any calls.           *)
(***************************************************************************)
NoCall == [op |-> "new", path |-> NoPath, input |-> Undefined, flag |-> FALSE,
           res |-> Undefined, err |-> NoError, pre |-> Undefined]
PlainOptions == [encryption |-> FALSE, secret |-> Str(""), iterations |-> 50000, empty |-> FALSE]

Init ==
    /\ heap = <<Obj("map", <<>>, NoProps), Obj("map", <<>>, NoProps)>>
    /\ database = Ref(1)
    /\ initialState = Ref(2)
    /\ ret = Undefined
    /\ arg = Undefined
    /\ snap = Undefined
    /\ last = NoCall
    /\ steps = 0
    /\ file = Text(EmptyMap)
    /\ options = PlainOptions
    /\ salt = Str("")
    /\ key = Undefined
    /\ calls = <<>>
    /\ alive = TRUE
    /\ writes = <<>>
    /\ saved = Undefined
    /\ destroyed = FALSE

Paths == {<<"a">>, <<"a", "b">>}
One == MapOf([x \in {"a"} |-> Num(1)])
Nested == MapOf([x \in {"a"} |-> MapOf([y \in {"b"} |-> Num(1)])])
States == {One, Nested}
Values == {Num(2), EmptyMap}
Calls(n) ==
    \/ \E s \in States, force \in BOOLEAN : steps < n /\ DoInit(s, force)
    \/ \E p \in Paths, v \in Values : steps < n /\ DoSet(p, v)
    \/ \E p \in Paths : steps < n /\ DoGet(p, Null)
    \/ \E p \in Paths : steps < n /\ DoPush(p, Num(2))
    \/ steps < n /\ DoReset
    \/ \E p \in Paths : steps < n /\ DoDelete(p)
    \/ \E p \in Paths : steps < n /\ DoIncrement(p, Num(1))
    \/ \E p \in Paths : steps < n /\ DoDecrement(p, Num(1))
    \/ \E p \in Paths : steps < n /\ DoUpdate(p, "not")
    \/ steps < n /\ DoGetState
    \/ \E s \in States : steps < n /\ DoSetState(s)
    \/ \E a \in 1..Len(heap) : steps < n /\ MutateReturned(a, "a", Num(3))
    \/ \E a \in 1..Len(heap) : steps < n /\ MutateArgument(a, "a", Num(3))

Next == Calls(MaxSteps)
Spec == Init /\ [][Next]_vars

\* The same Store and calls, in runs of at most CopySteps calls.
NextCopy == Calls(CopySteps)
SpecCopy == Init /\ [][NextCopy]_vars

(***************************************************************************)
(* C1: after init(s), every reset() leaves the live Document structurally  *)
(* equal to s as it was passed to init, whatever mutations and resets came *)
(* before it.                                                              *)
(***************************************************************************)
C1_ResetRestoresInitialState ==
    (last.op = "reset" /\ snap # Undefined) => Tree(heap, database) = snap

(***************************************************************************)
(* C2: a caller's assignment to a value returned by get or getState, at    *)
(* any depth below it, leaves the Store's Document as it was.              *)
(***************************************************************************)
C2_ReturnedValueIsACopy ==
    last.op = "mutateReturned" => Tree(heap, database) = last.pre

\* get returned a nested object of a non-empty Document and the caller assigned
\* a property of the object nested in the returned one.
C2_Witness ==
    /\ last.op = "mutateReturned"
    /\ IsRef(ret)
    /\ \E x \in DOMAIN heap[ret.a].f :
          /\ IsRef(heap[ret.a].f[x])
          /\ Prop(heap, heap[ret.a].f[x], "a") = Num(3)
    /\ \E x \in DOMAIN last.pre.f : last.pre.f[x].t = "obj"

(***************************************************************************)
(* The path operations: a Store constructed on a plaintext file holding    *)
(* any Document of a family (this.database = JSON.parse(data)), then calls *)
(* of the path-addressed methods with every path and value of the family.  *)
(***************************************************************************)
Prims == {Null, Bool(FALSE), Bool(TRUE), Num(0), Num(1), Str(""), Str("x")}
Leaves == Prims \cup {EmptyMap, EmptyArr, ArrOf(<<Num(1)>>)}
Under(name, tr) == MapOf([x \in {name} |-> tr])
Documents ==
    {EmptyMap} \cup {Under("a", l) : l \in Leaves}
               \cup {Under("a", Under("b", l)) : l \in Leaves}
AllPaths == {<<x>> : x \in Keys} \cup {<<x, y>> : x \in Keys, y \in Keys}
Defaults == {Null, Num(2)}
Written == Prims \cup {EmptyMap, EmptyArr}
Pushed == {Num(2), EmptyMap}
Amounts == {Num(1), Str("x")}

InitPath ==
    \E d \in Documents :
        LET b == Build(<<Obj("map", <<>>, NoProps), Obj("map", <<>>, NoProps)>>, d)
        IN  /\ heap = b.h
            /\ database = b.v
            /\ initialState = Ref(2)
            /\ ret = Undefined
            /\ arg = Undefined
            /\ snap = Undefined
            /\ last = NoCall
            /\ steps = 0
            /\ file = Text(d)
            /\ options = PlainOptions
            /\ salt = Str("")
            /\ key = Undefined
            /\ calls = <<>>
            /\ alive = TRUE
            /\ writes = <<>>
            /\ saved = Undefined
            /\ destroyed = FALSE

NextPath ==
    \/ \E p \in AllPaths, v \in Written : steps < PathSteps /\ DoSet(p, v)
    \/ \E p \in AllPaths, d \in Defaults : steps < PathSteps /\ DoGet(p, d)
    \/ \E p \in AllPaths : steps < PathSteps /\ DoHas(p)
    \/ \E p \in AllPaths, v \in Pushed : steps < PathSteps /\ DoPush(p, v)
    \/ \E p \in AllPaths : steps < PathSteps /\ DoDelete(p)
    \/ \E p \in AllPaths, n \in Amounts : steps < PathSteps /\ DoIncrement(p, n)
    \/ \E p \in AllPaths, n \in Amounts : steps < PathSteps /\ DoDecrement(p, n)
    \/ \E p \in AllPaths, u \in Updaters : steps < PathSteps /\ DoUpdate(p, u)

SpecPath == InitPath /\ [][NextPath]_vars

Now == Store(heap)
Document == Tree(heap, database)
Got(path, defaultValue) ==
    LET out == get(Now, path, defaultValue) IN Tree(out.st.heap, out.res)

(***************************************************************************)
(* C6: presence is independent of truthiness for reads.  After set(p, v),  *)
(* for every v including 0, false, "" and null, has(p) is true and         *)
(* get(p, d) returns v for every default d; and for every path p, has(p)   *)
(* is false exactly when get(p, d) returns the default d for every d.      *)
(***************************************************************************)
C6_PresenceIsNotTruthiness ==
    /\ last.op = "set" =>
          /\ has(Now, last.path).res = Bool(TRUE)
          /\ \A d \in Defaults : Got(last.path, d) = last.input
    /\ \A p \in AllPaths :
          (has(Now, p).res = Bool(FALSE)) <=> (\A d \in Defaults : Got(p, d) = d)

\* set has stored a falsy value at a nested path.
C6_Witness ==
    /\ last.op = "set"
    /\ Len(last.path) = 2
    /\ last.input \in {Num(0), Bool(FALSE), Str(""), Null}
    /\ TreeAt(Document, last.path) = last.input

(***************************************************************************)
(* C7: increment, decrement and update fail with the path-not-found error  *)
(* only when the path is absent; a present falsy value is not absent.      *)
(***************************************************************************)
C7_PathErrorOnlyWhenAbsent ==
    LET before == TreeAt(last.pre, last.path)
        after == TreeAt(Document, last.path)
    IN  /\ (last.op \in {"increment", "decrement", "update"} /\ last.err = PathError)
              => ~Present(last.pre, last.path)
        /\ (last.op = "increment" /\ before = Num(0) /\ last.input.t = "num")
              => (last.err = NoError /\ after = Num(last.input.n))
        /\ (last.op = "decrement" /\ before = Num(0) /\ last.input.t = "num")
              => (last.err = NoError /\ after = Num(0 - last.input.n))
        /\ (last.op = "update" /\ before \in {Num(0), Bool(FALSE), Str("")}
                               /\ last.input # Str("none"))
              => (last.err = NoError /\ after = ApplyUpdater(last.input.s, before))

(***************************************************************************)
(* C8: push(path, v) fails with 'You can only push values to an array'     *)
(* whenever a value that is not a sequence exists at path, the falsy       *)
(* values 0, false, "" and null included.                                  *)
(***************************************************************************)
IsSequence(tr) == tr.t = "obj" /\ tr.k = "arr"

C8_PushOntoNonSequenceFails ==
    (last.op = "push" /\ Present(last.pre, last.path)
                      /\ ~IsSequence(TreeAt(last.pre, last.path)))
        => (last.err = PushError /\ Document = last.pre)

(***************************************************************************)
(* C9: push(path, v) on an absent path makes get(path) equal to [v]; on a  *)
(* path holding a sequence s it makes get(path) equal to s with v appended *)
(* as the last element, the earlier elements unchanged and in order.       *)
(***************************************************************************)
C9_PushAppends ==
    last.op = "push" =>
        LET before == TreeAt(last.pre, last.path)
        IN  /\ before = Undefined => Got(last.path, Null) = ArrOf(<<last.input>>)
            /\ IsSequence(before) =>
                  /\ last.err = NoError
                  /\ Got(last.path, Null) = ArrOf(Append(before.e, last.input))

\* push has appended to a sequence that had an element
C9_Witness ==
    /\ last.op = "push"
    /\ IsSequence(TreeAt(last.pre, last.path))
    /\ Len(TreeAt(last.pre, last.path).e) = 1
    /\ Len(TreeAt(Document, last.path).e) = 2

(***************************************************************************)
(* C10: set(p, v) followed by set(p, v) yields the same Document as one    *)
(* set(p, v); delete(p) followed by delete(p) yields the same Document as  *)
(* one delete(p), and the second delete raises no error.                   *)
(***************************************************************************)
Again(value) == IF value.t = "obj" THEN arg ELSE value
After(out) == Tree(out.st.heap, out.st.database)

C10_SetAndDeleteIdempotent ==
    /\ last.op = "set" =>
          /\ After(set(Now, last.path, Again(last.input))) = Document
          /\ LET b == Build(heap, last.input)
             IN  After(set(Store(b.h), last.path, b.v)) = Document
    /\ last.op = "delete" =>
          /\ After(delete(Now, last.path)) = Document
          /\ delete(Now, last.path).err = NoError

\* a delete has removed a nested key, and a set has stored an object where an array was
C10_Witness ==
    \/ /\ last.op = "delete"
       /\ Len(last.path) = 2
       /\ Present(last.pre, last.path)
       /\ ~Present(Document, last.path)
    \/ /\ last.op = "set"
       /\ last.input = EmptyMap
       /\ IsSequence(TreeAt(last.pre, last.path))

(***************************************************************************)
(* Persistence: no Store at first, the file missing or holding a plaintext *)
(* Document; Stores are constructed with or without encryption, write,     *)
(* save and end; a saved envelope may be tampered with between two Stores. *)
(***************************************************************************)
Secret == Str("s3cr3t")
Encrypted == [encryption |-> TRUE, secret |-> Secret, iterations |-> 50000, empty |-> FALSE]
Configurations == {PlainOptions, Encrypted}

InitFile ==
    /\ heap = <<>>
    /\ database = Undefined
    /\ initialState = Undefined
    /\ ret = Undefined
    /\ arg = Undefined
    /\ snap = Undefined
    /\ last = NoCall
    /\ steps = 0
    /\ file \in {Absent, Text(One)}
    /\ options = PlainOptions
    /\ salt = Str("")
    /\ key = Undefined
    /\ calls = <<>>
    /\ alive = FALSE
    /\ writes = <<>>
    /\ saved = Undefined
    /\ destroyed = FALSE

NextFile ==
    \/ \E c \in Configurations, s \in Salts, r \in Randoms :
          steps < FileSteps /\ Construct(c, s, r)
    \/ \E v \in {Num(2), EmptyArr} : steps < FileSteps /\ DoSet(<<"b">>, v)
    \/ \E r \in Randoms : steps < FileSteps /\ DoSave(r)
    \/ steps < FileSteps /\ CompleteWrite
    \/ \E name \in {"content", "signature"} : steps < FileSteps /\ Tamper(name)
    \/ steps < FileSteps /\ Exit

SpecFile == InitFile /\ [][NextFile]_vars

Loaded ==
    /\ last.op = "new" /\ last.input # Undefined
    /\ last.input.file # Absent /\ last.input.file # Malformed
SameConfiguration(c, d) ==
    /\ c.encryption = d.encryption
    /\ c.secret = d.secret
    /\ c.iterations = d.iterations

(***************************************************************************)
(* C3: round trip.  A new Store constructed on the file a save() wrote,    *)
(* under the same configuration (plaintext, or encrypted with the same     *)
(* secret and iterations), holds a Document structurally equal to the one  *)
(* saved.                                                                  *)
(***************************************************************************)
C3_RoundTrip ==
    (Loaded /\ saved # Undefined /\ ~saved.tampered
            /\ SameConfiguration(last.input.opts, saved.opts))
        => (last.err = NoError /\ alive /\ Document = saved.doc)

(***************************************************************************)
(* C4: tamper detection.  When the cipher text or the signature of a saved *)
(* envelope has been changed, the next load with the same secret fails     *)
(* with 'The state has been altered' and no Store results.                 *)
(***************************************************************************)
C4_TamperDetected ==
    (Loaded /\ saved # Undefined /\ saved.tampered
            /\ SameConfiguration(last.input.opts, saved.opts))
        => (last.err = AlteredError /\ ~alive)

(***************************************************************************)
(* C5: verify, then decrypt.  In every load of an envelope, decryptState   *)
(* is called only after isStateValid has returned true for the file's      *)
(* cipher text, signature and the derived key; when the signature does not *)
(* verify, the load aborts with 'The state has been altered' and           *)
(* decryptState is not called.                                             *)
(***************************************************************************)
CalledAt(fn) == {i \in 1..Len(calls) : calls[i].fn = fn}
LoadedEnvelope ==
    /\ Loaded
    /\ last.input.opts.encryption
    /\ TruthyTree(Field(last.input.file.tree, "_encryption"))
    /\ TruthyTree(Field(Field(last.input.file.tree, "state"), "content"))
    /\ TruthyTree(Field(Field(last.input.file.tree, "state"), "signature"))
Verifies ==
    LET envelope == last.input.file.tree
        meta == Field(envelope, "_encryption")
    IN  cryptoIsStateValid(Field(Field(envelope, "state"), "content"),
                           Field(Field(envelope, "state"), "signature"),
                           generateKey(last.input.opts.secret, Field(meta, "salt"),
                                       Field(meta, "iterations").n))

C5_VerifyThenDecrypt ==
    LoadedEnvelope =>
        /\ \A i \in CalledAt("decryptState") :
              \E j \in CalledAt("isStateValid") : j < i /\ calls[j].res = Bool(TRUE)
        /\ ~Verifies => (last.err = AlteredError /\ CalledAt("decryptState") = {})

IsMapping(tr) == tr.t = "obj" /\ tr.k = "map"
IsPrefix(q, p) == Len(q) <= Len(p) /\ SubSeq(p, 1, Len(q)) = q
OffPath(p) == {r \in AllPaths : ~IsPrefix(r, p) /\ ~IsPrefix(p, r)}

(***************************************************************************)
(* C11: set always succeeds.  set(p, v) raises no error; afterwards every  *)
(* intermediate segment of p holds a mapping (created when it was missing, *)
(* replacing the value that was there when that was not a mapping), has(p) *)
(* is true, get(p) equals v, and every key that is not on p keeps its      *)
(* previous value.                                                         *)
(***************************************************************************)
C11_SetAlwaysSucceeds ==
    last.op = "set" =>
        /\ last.err = NoError
        /\ \A n \in 1..(Len(last.path) - 1) :
              IsMapping(TreeAt(Document, SubSeq(last.path, 1, n)))
        /\ has(Now, last.path).res = Bool(TRUE)
        /\ Got(last.path, Null) = last.input
        /\ \A r \in OffPath(last.path) : TreeAt(Document, r) = TreeAt(last.pre, r)

(***************************************************************************)
(* find and findOne.  A query is an object the caller builds; its          *)
(* criteria are primitives, regular expressions or objects.  Property      *)
(* names are plain names, so a sequence used as a query has no keys here.  *)
(***************************************************************************)
QueryError == "Query must be an object"

\* shallowequal: identical values are equal; two objects are equal when
\* they have the same number of keys and each key of the first is an own
\* key of the second holding an identical (===) value.
shallowEqual(h, objA, objB) ==
    IF objA = objB THEN TRUE
    ELSE IF ~IsRef(objA) \/ ~IsRef(objB) THEN FALSE
    ELSE LET a == h[objA.a]
             b == h[objB.a]
         IN  /\ Len(a.e) + Cardinality(DOMAIN a.f) = Len(b.e) + Cardinality(DOMAIN b.f)
             /\ \A i \in 1..Len(a.e) : i <= Len(b.e) /\ a.e[i] = b.e[i]
             /\ \A x \in DOMAIN a.f : x \in DOMAIN b.f /\ a.f[x] = b.f[x]

\* one (key, criterion) pair of the filter callback
Criterion(h, criterion, field) ==
    IF criterion.t = "regex"
    THEN field.t = "str" /\ field.s \in criterion.m
    ELSE shallowEqual(h, criterion, field)

\* The filter callback on one element: "keep", "drop", or "throw" when
\* Object.keys(query) or data[key] raises a TypeError.
Filter(h, query, data) ==
    IF Nullish(query) THEN "throw"
    ELSE LET ks == IF IsRef(query) THEN DOMAIN h[query.a].f ELSE {}
         IN  IF ks = {} THEN "keep"
             ELSE IF Nullish(data) THEN "throw"
             ELSE IF \A x \in ks : Criterion(h, h[query.a].f[x], Prop(h, data, x)) THEN "keep"
             ELSE "drop"

\* find, were it to refuse a destination that is not an array as push does
findStrict(st, path, query) ==
    LET got == get(st, path, Null)
    IN  IF ~TypeofObject(query) THEN Throws(got.st, QueryError)
        ELSE IF ~IsArray(got.st.heap, got.res) THEN Throws(got.st, PushError)
        ELSE Returns(got.st, Null)

find(st, path, query) ==
    LET got == get(st, path, Null)
        destination == got.res
        h == got.st.heap
    IN  IF ~TypeofObject(query) THEN Throws(got.st, QueryError)
        ELSE IF ~Truthy(destination) \/ ~IsArray(h, destination) THEN Returns(got.st, Null)
        ELSE LET elements == h[destination.a].e
                 raised == \E i \in 1..Len(elements) : Filter(h, query, elements[i]) = "throw"
                 foundings == SelectSeq(elements, LAMBDA data : Filter(h, query, data) = "keep")
             IN  IF raised THEN Throws(got.st, TypeError)
                 ELSE Returns([got.st EXCEPT !.heap = Append(h, Obj("arr", foundings, NoProps))],
                              Ref(Len(h) + 1))

findOne(st, path, query) ==
    LET out == find(st, path, query)
        result == out.res
    IN  IF out.err # NoError THEN out
        ELSE IF ~Truthy(result) THEN Returns(out.st, Null)
        ELSE IF Len(out.st.heap[result.a].e) # 0
        THEN Returns(out.st, out.st.heap[result.a].e[1])
        ELSE Returns(out.st, Null)

DoFind(path, query) ==
    LET b == Build(heap, query)
    IN  /\ alive
        /\ Call("find", path, query, FALSE, find(Store(b.h), path, b.v))
        /\ UNCHANGED <<ret, arg, snap, filevars>>

DoFindOne(path, query) ==
    LET b == Build(heap, query)
    IN  /\ alive
        /\ Call("findOne", path, query, FALSE, findOne(Store(b.h), path, b.v))
        /\ UNCHANGED <<ret, arg, snap, filevars>>

(***************************************************************************)
(* Queries: the Store holds a Document read from a plaintext file, with a  *)
(* sequence of up to two elements, or something else, under "a"; one find  *)
(* or findOne is called with a query.                                      *)
(***************************************************************************)
FindSteps == 1
Hello == Regex({"x"})
Elements ==
    {MapOf([a |-> Num(1)]), MapOf([a |-> Num(1), b |-> Str("x")]),
     MapOf([a |-> Num(0), b |-> Str("y")]), MapOf([b |-> Num(1)]),
     MapOf([a |-> Under("b", Num(1))]), MapOf([a |-> Under("b", EmptyMap)]),
     Num(1), Null}
Sequences == {EmptyArr} \cup {ArrOf(<<x>>) : x \in Elements}
                        \cup {ArrOf(<<x, y>>) : x \in Elements, y \in Elements}
Posts == {Under("a", s) : s \in Sequences}
NonSequences == {EmptyMap, Under("a", Num(0)), Under("a", Str("x")), Under("a", EmptyMap),
                 Under("a", Null)}
FlatQueries ==
    {EmptyMap, MapOf([a |-> Num(1)]), MapOf([a |-> Num(1), b |-> Str("x")]),
     MapOf([b |-> Hello]), MapOf([a |-> Num(1), b |-> Hello])}
NestedQueries == {MapOf([a |-> Under("b", Num(1))]), MapOf([a |-> Under("b", EmptyMap)])}
NotMappings == {Num(1), Str("x"), Bool(TRUE), Undefined, Null, EmptyArr}
Queries == FlatQueries \cup NestedQueries \cup NotMappings

InitFind ==
    \E d \in Posts \cup NonSequences :
        LET b == Build(<<Obj("map", <<>>, NoProps), Obj("map", <<>>, NoProps)>>, d)
        IN  /\ heap = b.h
            /\ database = b.v
            /\ initialState = Ref(2)
            /\ ret = Undefined
            /\ arg = Undefined
            /\ snap = Undefined
            /\ last = NoCall
            /\ steps = 0
            /\ file = Text(d)
            /\ options = PlainOptions
            /\ salt = Str("")
            /\ key = Undefined
            /\ calls = <<>>
            /\ alive = TRUE
            /\ writes = <<>>
            /\ saved = Undefined
            /\ destroyed = FALSE

NextFind ==
    \/ \E p \in {<<"a">>, <<"b">>}, q \in Queries : steps < FindSteps /\ DoFind(p, q)
    \/ \E p \in {<<"a">>, <<"b">>}, q \in Queries : steps < FindSteps /\ DoFindOne(p, q)

SpecFind == InitFind /\ [][NextFind]_vars

\* What the query asks of one element, on structural values: every
\* (field, criterion) pair holds, a regular expression of a string field,
\* a literal of an equal field.
Satisfies(element, query) ==
    \A x \in DOMAIN query.f :
        LET criterion == query.f[x]
            field == TreeAt(element, <<x>>)
        IN  IF criterion.t = "regex"
            THEN field.t = "str" /\ field.s \in criterion.m
            ELSE field = criterion
Expected(sequence, query) == SelectSeq(sequence.e, LAMBDA element : Satisfies(element, query))
Searched == last.op \in {"find", "findOne"}
Target == TreeAt(last.pre, last.path)

(***************************************************************************)
(* C12: find(path, query) over a sequence returns, in their original       *)
(* order, exactly the elements that satisfy every (field, criterion) pair  *)
(* of the query: the empty query returns all elements, a literal criterion *)
(* requires an equal field, a regex criterion excludes elements whose      *)
(* field is missing or not a string; findOne returns the first element of  *)
(* that result, or null when it is empty.                                  *)
(***************************************************************************)
C12_FindReturnsMatches ==
    (Searched /\ IsSequence(Target) /\ last.input \in FlatQueries) =>
        /\ last.err = NoError
        /\ last.op = "find" => last.res = ArrOf(Expected(Target, last.input))
        /\ last.op = "findOne" =>
              last.res = IF Expected(Target, last.input) = <<>> THEN Null
                         ELSE Expected(Target, last.input)[1]

(***************************************************************************)
(* C13: for a literal criterion, find matches an element iff the element's *)
(* value at the field is structurally equal to the criterion at every      *)
(* nesting depth: a criterion that is a mapping holding nested mappings    *)
(* matches an element whose field holds an equal but distinct value.       *)
(***************************************************************************)
C13_LiteralMatchIsStructural ==
    (last.op = "find" /\ IsSequence(Target) /\ last.input \in NestedQueries
                      /\ \A i \in 1..Len(Target.e) : IsMapping(Target.e[i])) =>
        (last.err = NoError /\ last.res = ArrOf(Expected(Target, last.input)))

ValidQueries == FlatQueries \cup NestedQueries

C15_InvalidQueryRejected ==
    (Searched /\ last.input \in NotMappings) =>
        (last.err = QueryError /\ Document = last.pre)

(***************************************************************************)
(* States: the Store of Init, and calls of init, setState, getState, reset *)
(* and set with states that are mappings, sequences, null or primitives.   *)
(***************************************************************************)
StateSteps == 3
AnyStates == States \cup {EmptyMap, Null, EmptyArr, ArrOf(<<Num(1)>>), Num(1)}
NextState ==
    \/ \E s \in AnyStates, force \in BOOLEAN : steps < StateSteps /\ DoInit(s, force)
    \/ \E s \in AnyStates : steps < StateSteps /\ DoSetState(s)
    \/ steps < StateSteps /\ DoGetState
    \/ steps < StateSteps /\ DoReset
    \/ \E v \in Values : steps < StateSteps /\ DoSet(<<"a">>, v)
SpecState == Init /\ [][NextState]_vars

NoTopLevelKeys(tr) == tr.e = <<>> /\ DOMAIN tr.f = {}

(***************************************************************************)
(* C16: init(initial, {force}) with a mapping always records initial as    *)
(* InitialState; the live Document becomes a copy of initial (equal to it, *)
(* and not the caller's object) iff it had no top-level keys or force is   *)
(* set, and is otherwise left exactly as it was.                           *)
(***************************************************************************)
C16_InitRecordsAndReplaces ==
    (last.op = "init" /\ IsMapping(last.input) /\ last.pre.t = "obj") =>
        /\ last.err = NoError
        /\ Tree(heap, initialState) = last.input
        /\ Document = IF NoTopLevelKeys(last.pre) \/ last.flag THEN last.input ELSE last.pre
        /\ (NoTopLevelKeys(last.pre) \/ last.flag) =>
              Reach(heap, database) \cap Reach(heap, arg) = {}

(***************************************************************************)
(* C17: setState(v) and init(v) fail with 'State should be an object' for  *)
(* every v that is not a mapping, null and sequences included, so that in  *)
(* every reachable state the live Document is a mapping and getState()     *)
(* returns a mapping.                                                      *)
(***************************************************************************)
C17_StateIsAlwaysAMapping ==
    /\ (last.op \in {"setState", "init"} /\ ~IsMapping(last.input)) => last.err = StateError
    /\ IsMapping(Document)
    /\ last.op = "getState" => IsMapping(last.res)

(***************************************************************************)
(* The steps of fs.writeFile.  save() computes its data and calls          *)
(* fs.writeFile, which opens the file with flag 'w' (the file is truncated *)
(* to nothing), writes the data from offset 0 and closes the file; the     *)
(* promise resolves after the close.  Nothing orders the steps of two      *)
(* calls of fs.writeFile on the same file.                                 *)
(***************************************************************************)
Empty == [kind |-> "empty"]
\* The bytes of `top` written from offset 0 over a file holding `under`.
Overlay(top, under) ==
    IF under = Empty \/ under = top THEN top
    ELSE [kind |-> "overlay", top |-> top, under |-> under]

OpenFile(i) ==
    /\ i \in 1..Len(writes)
    /\ writes[i].phase = "queued"
    /\ writes' = [writes EXCEPT ![i].phase = "open"]
    /\ file' = Empty
    /\ last' = Event("open", Undefined)
    /\ steps' = steps + 1
    /\ UNCHANGED <<memvars, options, salt, key, calls, alive, saved, destroyed>>

WriteFile(i) ==
    /\ i \in 1..Len(writes)
    /\ writes[i].phase = "open"
    /\ writes' = [writes EXCEPT ![i].phase = "written"]
    /\ file' = Overlay(writes[i].data, file)
    /\ last' = Event("write", Undefined)
    /\ steps' = steps + 1
    /\ UNCHANGED <<memvars, options, salt, key, calls, alive, saved, destroyed>>

CloseFile(i) ==
    /\ i \in 1..Len(writes)
    /\ writes[i].phase = "written"
    /\ writes' = SubSeq(writes, 1, i - 1) \o SubSeq(writes, i + 1, Len(writes))
    /\ saved' = IF saved = Undefined \/ saved.at < writes[i].at
                THEN Completed(writes[i]) ELSE saved
    /\ last' = Event("written", Undefined)
    /\ steps' = steps + 1
    /\ UNCHANGED <<memvars, file, options, salt, key, calls, alive, destroyed>>

(***************************************************************************)
(* Saving: the Store of Init, on a plaintext file; the Document is         *)
(* changed and saved, up to MaxWrites writes being under way at a time.    *)
(***************************************************************************)
WriteSteps == 9
MaxWrites == 2
NextWrite ==
    \/ \E v \in Values : steps < WriteSteps /\ DoSet(<<"a">>, v)
    \/ steps < WriteSteps /\ Len(writes) < MaxWrites /\ DoSave("r1")
    \/ \E i \in 1..MaxWrites : steps < WriteSteps /\ OpenFile(i)
    \/ \E i \in 1..MaxWrites : steps < WriteSteps /\ WriteFile(i)
    \/ \E i \in 1..MaxWrites : steps < WriteSteps /\ CloseFile(i)
SpecWrite == Init /\ [][NextWrite]_vars

InProgress == {i \in 1..Len(writes) : writes[i].phase # "queued"}

(***************************************************************************)
(* C18: saves are serialized per Store.  When save() is called again       *)
(* before an earlier save() has completed, at most one write to the file   *)
(* is in progress at any time, and after both have completed the file      *)
(* holds the serialization produced by the later call.                     *)
(***************************************************************************)
C18_SavesAreSerialized ==
    /\ Cardinality(InProgress) <= 1
    /\ (writes = <<>> /\ saved # Undefined) =>
          (file = saved.data \/ (file.kind = "overlay" /\ file.top = saved.data))

(***************************************************************************)
(* C19: save replaces the file contents atomically: at every point during  *)
(* a save the file holds either the complete previous contents or the      *)
(* complete new contents, never an empty, truncated or mixed file.         *)
(***************************************************************************)
C19_SaveIsAtomic == file.kind = "json"

(***************************************************************************)
(* C20: the envelope is never the in-memory Document.  Whenever the loaded *)
(* file carries the metadata key _encryption, the load treats it as        *)
(* encrypted whatever the encryption option is (it derives the key), so no *)
(* constructed Store has a live Document that is the envelope itself.      *)
(***************************************************************************)
C20_EnvelopeIsNeverTheDocument ==
    /\ (Loaded /\ Present(last.input.file.tree, <<"_encryption">>)) =>
          CalledAt("generateKey") # {}
    /\ alive => ~Present(Document, <<"_encryption">>)

(***************************************************************************)
(* Loading: no Store at first; the file is missing, malformed, a plaintext *)
(* document, or an envelope that is intact, altered or incomplete; Stores  *)
(* are constructed on it with and without encryption, and end.             *)
(***************************************************************************)
LoadSteps == 3
Sealed == cryptoEncryptState(Text(One), generateKey(Secret, Str("s1"), 50000), "r1")
EnvelopeOf(content, signature) ==
    MapOf([_encryption |-> MapOf([salt |-> Str("s1"), iterations |-> Num(50000)]),
           state |-> MapOf([content |-> content, signature |-> signature])])
Files ==
    {Absent, Malformed, Text(One), Text(Null),
     Text(EnvelopeOf(Sealed.state, Sealed.signature)),
     Text(EnvelopeOf(Forged, Sealed.signature)),
     Text(EnvelopeOf(Sealed.state, Forged)),
     Text(EnvelopeOf(Str(""), Sealed.signature)),
     Text(EnvelopeOf(Sealed.state, Str(""))),
     Text(MapOf([_encryption |-> MapOf([salt |-> Str("s1"), iterations |-> Num(50000)])]))}
NoSecret == [encryption |-> TRUE, secret |-> Str(""), iterations |-> 50000, empty |-> FALSE]

InitLoad ==
    /\ heap = <<>>
    /\ database = Undefined
    /\ initialState = Undefined
    /\ ret = Undefined
    /\ arg = Undefined
    /\ snap = Undefined
    /\ last = NoCall
    /\ steps = 0
    /\ file \in Files
    /\ options = PlainOptions
    /\ salt = Str("")
    /\ key = Undefined
    /\ calls = <<>>
    /\ alive = FALSE
    /\ writes = <<>>
    /\ saved = Undefined
    /\ destroyed = FALSE

NextLoad ==
    \/ \E c \in Configurations \cup {NoSecret}, s \in Salts, r \in Randoms :
          steps < LoadSteps /\ Construct(c, s, r)
    \/ steps < LoadSteps /\ Exit

SpecLoad == InitLoad /\ [][NextLoad]_vars

ConstructionFailed == last.op = "new" /\ last.input # Undefined /\ last.err # NoError

(***************************************************************************)
(* C21: a failed load is all-or-nothing.  When construction fails an error *)
(* is raised to the caller, no Store results, and the contents of the      *)
(* backing file are exactly what they were before the load.                *)
(***************************************************************************)
C21_FailedLoadChangesNothing ==
    ConstructionFailed =>
        /\ ~alive
        /\ database = Undefined
        /\ file = last.input.file

\* a load has failed on an envelope without cipher text
C21_Witness ==
    /\ ConstructionFailed
    /\ last.err = InvalidStateError
    /\ last.input.file = Text(EnvelopeOf(Str(""), Sealed.signature))

(***************************************************************************)
(* C22: the Store exclusively owns its Document.  After init(obj),         *)
(* setState(obj), set(p, obj) or push(p, obj), a caller's assignment into  *)
(* obj does not change the Document, and the live Document never shares    *)
(* storage with the object the caller supplied.                            *)
(***************************************************************************)
C22_StoreOwnsItsDocument ==
    /\ last.op = "mutateArgument" => Document = last.pre
    /\ Reach(heap, database) \cap Reach(heap, arg) = {}

\* The text is an envelope whose cipher text and signature were made with
\* the key derived from the secret and the salt and iterations it records.
IsEnvelopeUnder(text, secret) ==
    /\ text.kind = "json"
    /\ LET meta == Field(text.tree, "_encryption")
           content == Field(Field(text.tree, "state"), "content")
           signature == Field(Field(text.tree, "state"), "signature")
       IN  /\ DOMAIN text.tree.f = {"_encryption", "state"}
           /\ Field(meta, "salt").t = "str"
           /\ Field(meta, "iterations").t = "num"
           /\ LET derived == generateKey(secret, Field(meta, "salt"), Field(meta, "iterations").n)
              IN  /\ IsMade(content, "aes")
                  /\ content.c.key = derived
                  /\ signature = HmacSHA256(content, derived)

UnlinkError == "ENOENT: no such file or directory"

destroy(st, removeDatabase, f) ==
    LET n == Len(st.heap)
        h == st.heap \o <<Obj("map", <<>>, NoProps), Obj("map", <<>>, NoProps)>>
        emptied == [st EXCEPT !.heap = h, !.database = Ref(n + 1), !.initialState = Ref(n + 2)]
    IN  IF removeDatabase /\ f = Absent THEN Throws(emptied, UnlinkError)
        ELSE Returns(emptied, This)

DoDestroy(removeDatabase) ==
    LET out == destroy(Store(heap), removeDatabase, file)
        removes == removeDatabase /\ file # Absent
    IN  /\ alive
        /\ Call("destroy", NoPath, Undefined, removeDatabase, out)
        /\ file' = IF removes THEN Absent ELSE file
        /\ writes' = IF removes
                     THEN [i \in 1..Len(writes) |->
                             IF writes[i].phase = "queued" THEN writes[i]
                             ELSE [writes[i] EXCEPT !.phase = "removed"]]
                     ELSE writes
        /\ destroyed' = (removes \/ destroyed)
        /\ UNCHANGED <<ret, arg, snap, options, salt, key, calls, alive, saved>>

\* A write whose file was removed while it had it open finishes: nothing
\* of it reaches the backing file.
FinishRemoved(i) ==
    /\ i \in 1..Len(writes)
    /\ writes[i].phase = "removed"
    /\ writes' = SubSeq(writes, 1, i - 1) \o SubSeq(writes, i + 1, Len(writes))
    /\ saved' = IF saved = Undefined \/ saved.at < writes[i].at
                THEN Completed(writes[i]) ELSE saved
    /\ last' = Event("written", Undefined)
    /\ steps' = steps + 1
    /\ UNCHANGED <<memvars, file, options, salt, key, calls, alive, destroyed>>

(***************************************************************************)
(* Destroying: the Store of Init, on a plaintext file; the Document is     *)
(* changed, saved and destroyed while writes are under way.                *)
(***************************************************************************)
DestroySteps == 6
NextDestroy ==
    \/ \E v \in Values : steps < DestroySteps /\ DoSet(<<"a">>, v)
    \/ steps < DestroySteps /\ Len(writes) < MaxWrites /\ DoSave("r1")
    \/ \E i \in 1..MaxWrites : steps < DestroySteps /\ OpenFile(i)
    \/ \E i \in 1..MaxWrites : steps < DestroySteps /\ WriteFile(i)
    \/ \E i \in 1..MaxWrites : steps < DestroySteps /\ CloseFile(i)
    \/ \E i \in 1..MaxWrites : steps < DestroySteps /\ FinishRemoved(i)
    \/ \E removeDatabase \in BOOLEAN : steps < DestroySteps /\ DoDestroy(removeDatabase)
SpecDestroy == Init /\ [][NextDestroy]_vars

(***************************************************************************)
(* C24: destroy() with removeDatabase = true empties the Document and the  *)
(* InitialState and removes the backing file, and the file stays absent    *)
(* until save() is called again: a save() started before destroy() and not *)
(* yet completed neither re-creates the file nor writes the Document of    *)
(* before the destroy once destroy has returned.                           *)
(***************************************************************************)
C24_DestroyedFileStaysAbsent ==
    /\ (last.op = "destroy" /\ last.flag /\ last.err = NoError) =>
          /\ Document = EmptyMap
          /\ Tree(heap, initialState) = EmptyMap
          /\ file = Absent
    /\ destroyed => file = Absent

====
